---- MODULE Spec2Model ----
(***************************************************************************)
(* firmmsync.py: watch a GE console for a new series, classify a sample    *)
(* image as fMRI/EPI, then mirror the series into FIRMM's incoming folder  *)
(* with repeated rsync runs, until Ctrl-C.                                 *)
(*                                                                         *)
(* The remote console, the scratch directory ~/temp and the incoming       *)
(* directory are modelled as name -> file maps.  rsync is modelled by its  *)
(* documented behaviour for the options the program passes on its command  *)
(* lines (--ignore-existing, -T DIR, -P = --partial --progress).           *)
(***************************************************************************)
EXTENDS Integers, Sequences, FiniteSets, TLC

\* ------------------------------------------------------------------ bounds
MaxSeries == 2      \* series directories the console creates in the exam
MaxImg    == 2      \* distinct image file names i1..iMaxImg
MaxPolls  == 4      \* polls of the change detector that are explored
MaxIter   == 2      \* rsync iterations of the transfer loop that are explored
MaxDrift == 1        \* console rewrites or deletions of transferred images
MaxEntries == 2     \* entries of a console directory, for the resolver alone
MaxDescLen == 5     \* length of a SeriesDescription, for the fMRI test alone

\* ------------------------------------------------------- program constants
OK == 0

Series == 1..MaxSeries
Names  == 1..MaxImg           \* the file name "i<k>"; every name starts with "i"
Stale  == 0                   \* origin of a file left in ~/temp by an earlier run

\* ---------------------------------------------------------------- strings
\* Strings are sequences of characters so that prefixes can be computed.
Null   == <<"n","u","l","l">>
D_fMRI == <<"f","M","R","I","_","R","E","S","T">>
D_EPI  == <<"E","P","I","_","T","A","S","K">>
D_T1   == <<"T","1","_","M","P","R","A","G","E">>
Descs  == {D_fMRI, D_EPI, D_T1}

\* str.startswith(prefix)
StartsWith(str, prefix) ==
    /\ Len(str) >= Len(prefix)
    /\ SubSeq(str, 1, Len(prefix)) = prefix

\* ----------------------------------------------------------- DICOM header
tag_list == << "StudyID", "PatientID", "PatientName", "ProtocolName",
               "SeriesDescription", "SeriesDate", "SeriesTime" >>
Tags == { tag_list[j] : j \in 1..Len(tag_list) }

\* A header is the set of recognised tags the file carries and the value of
\* its SeriesDescription (when carried).  Other tags carry a value that
\* names the tag.  PatientName is held as a PersonName object, the others as
\* plain strings.
Elem(tag, chars) == [pn |-> (tag = "PatientName"), s |-> chars]
SourceValue(h, tag) ==
    IF tag = "SeriesDescription" THEN Elem(tag, h.desc) ELSE Elem(tag, <<tag>>)

\* str(x) of a data element value
Str(v) == v.s

\* The attribute that the "must add tag" branch assigns for a missing tag.
AttrName(tag) ==
    IF tag = "SeriesDescription" THEN "SerieDescription" ELSE tag

\* The dataset after dcmread(...) and the fill-in loop: attribute name ->
\* value.  Assigning a name that is not a DICOM keyword only sets a plain
\* attribute of that name.
FillDataset(h) ==
    LET missing == Tags \ h.present
        added   == IF Cardinality(h.present) # Len(tag_list)
                   THEN { AttrName(t) : t \in missing }
                   ELSE {}
    IN  [ a \in h.present \cup added |->
            IF a \in h.present THEN SourceValue(h, a) ELSE Elem(a, Null) ]

NoMetadata == [ t \in {} |-> Null ]

\* get_metadata: reading ds.<tag> for a tag that is not an attribute of the
\* dataset raises AttributeError.
get_metadata(h) ==
    LET ds == FillDataset(h)
    IN  IF \A t \in Tags : t \in DOMAIN ds
        THEN [ raised |-> FALSE, metadata |-> [ t \in Tags |-> Str(ds[t]) ] ]
        ELSE [ raised |-> TRUE,  metadata |-> NoMetadata ]

\* print_studydata: the fields it prints (PatientName is not shown)
ShownTags == { "StudyID", "PatientID", "SeriesDescription",
               "SeriesDate", "SeriesTime", "ProtocolName" }
print_studydata(metadata) == [ t \in ShownTags |-> metadata[t] ]

\* the fMRI test of check_for_fmri
IsFmriAnywhere(metadata) ==
    LET d == metadata["SeriesDescription"]
    IN  \E k \in 1..Len(d) :
           \/ StartsWith(SubSeq(d, k, Len(d)), <<"f","M","R","I">>)
           \/ StartsWith(SubSeq(d, k, Len(d)), <<"E","P","I">>)
IsFmri(metadata) ==
    \/ StartsWith(metadata["SeriesDescription"], <<"f","M","R","I">>)
    \/ StartsWith(metadata["SeriesDescription"], <<"E","P","I">>)

\* Headers used for the series of the console in the process model.
FullHeader(d) == [ present |-> Tags, desc |-> d ]
NoDescHeader  == [ present |-> Tags \ {"SeriesDescription"}, desc |-> Null ]
SeriesHeaders == { FullHeader(D_fMRI), FullHeader(D_T1), NoDescHeader }
\* Headers used for the exhaustive check of get_metadata.
AllHeaders == { [ present |-> p, desc |-> d ] : p \in SUBSET Tags, d \in Descs }

\* ------------------------------------------------------- remote directories
\* A console directory is a set of entries [id, c, mt]: c is the first
\* character of the entry's name, mt its modification time.  A listing is a
\* sequence of entries, the output of a remote command a sequence of lines.
\* "ls DIR -t": newest first; "ls DIR -rt": oldest first.
RECURSIVE LsT(_)
LsT(dir) ==
    IF dir = {} THEN <<>>
    ELSE LET e == CHOOSE x \in dir : \A y \in dir : x.mt >= y.mt
         IN  <<e>> \o LsT(dir \ {e})
RECURSIVE LsRt(_)
LsRt(dir) ==
    IF dir = {} THEN <<>>
    ELSE LET e == CHOOSE x \in dir : \A y \in dir : x.mt >= y.mt
         IN  Append(LsRt(dir \ {e}), e)
\* "| tail -n 1"
Tail1(lines) == IF lines = <<>> THEN <<>> ELSE << lines[Len(lines)] >>
\* ssh ... ls DIR -rt | tail -n 1
LatestChild(dir) == Tail1(LsRt(dir))
\* the flag set by "if out[0] != ch"
PrefixFlag(line, ch) == IF line[1].c # ch THEN -1 ELSE OK

\* what "if out[0] != ch: print(msg)" prints
NamingMessage(line, ch, msg) == IF PrefixFlag(line, ch) # OK THEN {msg} ELSE {}
\* the messages get_last_imagepath prints for the path it returns
Complaints(path) ==
    NamingMessage(<< path[2] >>, "e", "Exam not found")
      \cup NamingMessage(<< path[3] >>, "s", "Series not found")
      \cup NamingMessage(<< path[4] >>, "i", "Images not found")

NoPath == [ raised |-> TRUE, flag |-> OK, path |-> <<>>, examdir |-> <<>> ]

\* get_last_imagepath on the directories met at the four levels below
\* rootdir (dirs[1] is rootdir itself).  out[0] of an empty output raises
\* IndexError.  An empty rootdir makes ptdir equal to rootdir.
get_last_imagepath(dirs) ==
    LET pt == LatestChild(dirs[1])
        ex == LatestChild(IF pt = <<>> THEN dirs[1] ELSE dirs[2])
    IN  IF ex = <<>> THEN NoPath
        ELSE LET f2 == PrefixFlag(ex, "e")
                 se == LatestChild(dirs[3])
             IN  IF se = <<>> THEN NoPath
                 ELSE LET f3 == IF PrefixFlag(se, "s") # OK THEN -1 ELSE f2
                          im == LatestChild(dirs[4])
                      IN  IF im = <<>> THEN NoPath
                          ELSE [ raised  |-> FALSE,
                                 flag    |-> IF PrefixFlag(im, "i") # OK
                                             THEN -1 ELSE f3,
                                 path    |-> pt \o ex \o se \o im,
                                 examdir |-> pt \o ex ]

\* get_last_seriespath on the exam directory
get_last_seriespath(examdir) ==
    LET se == LatestChild(examdir)
    IN  IF se = <<>> THEN [ raised |-> TRUE, flag |-> OK, seriesdir |-> 0 ]
        ELSE [ raised |-> FALSE, flag |-> PrefixFlag(se, "s"),
               seriesdir |-> se[1].id ]

\* The directories with entries 1..MaxEntries named by the convention of
\* level k (p, e, s, i), with every order of modification.
LevelChar(k) == <<"p", "e", "s", "i">>[k]
Orders(S) == { f \in [S -> 1..Cardinality(S)] :
                 \A x, y \in S : x # y => f[x] # f[y] }
ConformingDirs(k) ==
    UNION { { { [id |-> x, c |-> LevelChar(k), mt |-> f[x]] : x \in S } :
              f \in Orders(S) } : S \in SUBSET (1..MaxEntries) }

\* The SeriesDescription values the fMRI test is tried on.
Chars == {"f", "M", "R", "I", "E", "P", "m", "e", "_"}
DescStrings == UNION { [1..n -> Chars] : n \in 0..MaxDescLen }

\* ------------------------------------------------------ command-line options
\* rsync options of the sample fetch and of the transfer command
SampleFlags   == {"p","t","g","v","h","P"}
bVerbose      == TRUE
TransferFlags == {"p","t","g"} \cup (IF bVerbose THEN {"v","h","P"} ELSE {})
\* -P is --partial --progress: an interrupted transfer keeps the partial file
\* by moving it to its destination name.
KeepPartial(flags) == "P" \in flags
\* -T DIR: the receiver creates its temporary files in DIR; without it they
\* are created in the destination directory.
TempLocation == "temp"
\* the command string built once before the transfer loop
NoCmd == [ flags |-> {}, src |-> 0, tmp |-> "", dst |-> "",
           ignore_existing |-> FALSE ]
rsync_cmd(src) == [ flags |-> TransferFlags, src |-> src, tmp |-> TempLocation,
                    dst |-> "incoming", ignore_existing |-> TRUE ]
\* --ignore-existing: names already present in the destination are skipped.
CopyAll(names, dest) == names
IgnoreExisting(names, dest) == names \ DOMAIN dest

\* ------------------------------------------------------------------- state
VARIABLES
    pc,             \* position of main()
    remoteLatest,   \* console: most recently modified series of the exam
    remote,         \* console: series -> its image names, oldest first
    hdr,            \* origin (series, or Stale) -> header of its images
    changed, gone,  \* console: images of the transferred series rewritten,
                    \*   or deleted, after they were copied
    cmd,            \* the rsync command of the transfer loop
    naming,         \* console: first character of the names of the exam
                    \*   directory, of each series directory and each image
    tempdir,        \* ~/temp: name -> file
    incoming,       \* incomingdir: name -> file
    orig_seriesdir, seriesdir, srcdir, bFound,
    flag,           \* the return code of the last get_last_seriespath
    s, i,           \* loop counters of the polling and the transfer loop
    rc,             \* result of the last systemcall(): <<n>>, or <<>> for None
    todo,           \* rsync run: names still to transfer
    inflight,       \* rsync run: name being received into a temporary file
    handler,        \* TRUE once signal_handler is registered for SIGINT
    sigSent, sigPending,
    exitStatus,     \* "running", "success" (sys.exit(0)), "error" (uncaught)
    out,            \* kinds of messages printed so far
    shown,          \* the study data printed by print_studydata, if any
    pollLog,        \* history: the series each poll resolved to
    triggered,      \* history: the series check_for_fmri was called on
    checkLog,       \* history: [ser, sample, verdict] of each classification
    snap, prevSnap, \* history: source names of this / the previous rsync run
    prevOK,         \* history: the previous rsync run returned OK
    fault,          \* history: this rsync run was hit by a fault
    writes,         \* history: names written to incomingdir by this run
    destAtStart,    \* history: incomingdir when this rsync run started
    m_hdr, m_res,   \* get_metadata on its own: input header, result
    c_desc, c_res,  \* the fMRI test on its own: SeriesDescription, result
    r_dirs, r_res   \* get_last_imagepath on its own: directories, result

vars == << pc, remoteLatest, remote, hdr, naming, changed, gone, cmd, flag, tempdir, incoming, orig_seriesdir,
           seriesdir, srcdir, bFound, s, i, rc, todo, inflight, handler,
           sigSent, sigPending, exitStatus, out, shown, pollLog, triggered,
           checkLog, snap, prevSnap, prevOK, fault, writes, destAtStart,
           m_hdr, m_res, c_desc, c_res, r_dirs, r_res >>

envVars  == << remoteLatest, remote, hdr, naming, changed, gone >>
sigVars  == << handler, sigSent, sigPending >>
pollVars == << orig_seriesdir, seriesdir, srcdir, bFound, flag, s, pollLog,
               triggered, checkLog >>
copyVars == << i, todo, inflight, snap, prevSnap, prevOK, fault, writes,
               destAtStart >>
metaVars == << m_hdr, m_res, c_desc, c_res, r_dirs, r_res >>

NoFiles == [ n \in {} |-> [ser |-> Stale, complete |-> TRUE, ver |-> 0] ]
\* a local file: the series it was copied from, whether it is whole, and
\* which content of the remote file it holds (0 as written by the scanner)
File(ser, complete) == [ser |-> ser, complete |-> complete, ver |-> 0]
Put(dir, n, f) == [ m \in DOMAIN dir \cup {n} |-> IF m = n THEN f ELSE dir[m] ]
Members(seq) == { seq[j] : j \in 1..Len(seq) }
NoResult == [ raised |-> FALSE, metadata |-> NoMetadata ]
NoDirs == [ k \in 1..4 |-> {} ]
\* the variables of the functions tried on their own, when not in use
PureIdle ==
    /\ m_hdr = FullHeader(D_T1) /\ m_res = NoResult
    /\ c_desc = <<>> /\ c_res = FALSE
    /\ r_dirs = NoDirs /\ r_res = NoPath

\* names that follow the e / s / i convention, and names that break it
GoodNaming == [ exam   |-> "e",
                series |-> [ k \in Series |-> "s" ],
                image  |-> [ n \in Names |-> "i" ] ]
Namings == { [ exam |-> e, series |-> f, image |-> g ] :
               e \in {"e", "x"}, f \in [Series -> {"s", "x"}],
               g \in [Names -> {"i", "x"}] }

\* the directories get_last_imagepath meets: one patient, one exam, the
\* series created so far and the images of the latest series
ExamDir == { [id |-> k, c |-> naming.series[k], mt |-> k] : k \in 1..remoteLatest }
ImageDir(ser) ==
    { [id |-> remote[ser][j], c |-> naming.image[remote[ser][j]], mt |-> j] :
        j \in 1..Len(remote[ser]) }
ConsoleDirs ==
    << { [id |-> 1, c |-> "p", mt |-> 1] },
       { [id |-> 1, c |-> naming.exam, mt |-> 1] },
       ExamDir,
       ImageDir(remoteLatest) >>

\* get_dcmpath: the files of a local directory whose name starts with "i"
list_dcm(dir) == { n \in DOMAIN dir : naming.image[n] = "i" }

Terminal == {"exited", "crashed", "killed"}
PreConfirmed == {"start", "gate", "poll", "fetch", "classify", "install"}
TransferLoop == {"copy", "rsync", "after"}

\* No handler is registered before the transfer loop: SIGINT keeps Python's
\* default disposition until signal.signal() runs.
HandlerRegisteredEarly == TRUE
HandlerAtStartup == FALSE

InitProc ==
    /\ pc = "start"
    /\ remoteLatest = 1
    /\ remote = [ ser \in Series |-> IF ser = 1 THEN <<1>> ELSE <<>> ]
    /\ \/ /\ tempdir = NoFiles
          /\ hdr = [ o \in {Stale} \cup Series |-> FullHeader(D_T1) ]
       \/ /\ tempdir \in { Put(NoFiles, n, File(Stale, TRUE)) : n \in Names }
          /\ hdr \in { [ o \in {Stale} \cup Series |->
                           IF o = Stale THEN h ELSE FullHeader(D_T1) ] :
                        h \in SeriesHeaders }
    /\ incoming = NoFiles
    /\ orig_seriesdir = 0 /\ seriesdir = 0 /\ srcdir = 0 /\ bFound = FALSE
    /\ flag = OK /\ cmd = NoCmd /\ changed = {} /\ gone = {}
    /\ s = 0 /\ i = 0
    /\ rc = <<>> /\ todo = {} /\ inflight = {}
    /\ handler = HandlerAtStartup /\ sigSent = FALSE /\ sigPending = FALSE
    /\ exitStatus = "running" /\ out = {} /\ shown = NoMetadata
    /\ pollLog = <<>> /\ triggered = <<>> /\ checkLog = <<>>
    /\ snap = {} /\ prevSnap = {} /\ prevOK = FALSE /\ fault = FALSE
    /\ writes = {} /\ destAtStart = NoFiles
    /\ PureIdle

\* every name on the console follows the convention
Init == InitProc /\ naming = GoodNaming

\* ------------------------------------------------------------- environment
\* The console changes only matter when main() is about to list it.
ReadsRemote == {"start", "poll", "fetch", "copy"}

\* the scanner starts a new series: a new, still empty, series directory
EnvNewSeries ==
    /\ pc \in ReadsRemote /\ ~sigPending
    /\ remoteLatest < MaxSeries
    /\ remoteLatest' = remoteLatest + 1
    /\ \E h \in SeriesHeaders : hdr' = [hdr EXCEPT ![remoteLatest + 1] = h]
    /\ UNCHANGED << pc, remote, naming, changed, gone, tempdir, incoming, rc,
                    exitStatus, out, shown, sigVars, pollVars, copyVars,
                    metaVars, cmd >>

\* the scanner writes the next image of the series it is acquiring
EnvAddImage ==
    /\ pc \in ReadsRemote /\ ~sigPending
    /\ Len(remote[remoteLatest]) < MaxImg
    /\ remote' = [remote EXCEPT ![remoteLatest] = Append(@, Len(@) + 1)]
    /\ UNCHANGED << pc, remoteLatest, hdr, naming, changed, gone, tempdir,
                    incoming, rc, exitStatus, out, shown, sigVars, pollVars,
                    copyVars, metaVars, cmd >>

\* the scanner starts one more series while the transfer loop is running
EnvLaterSeries ==
    /\ pc = "copy" /\ handler /\ ~sigPending
    /\ remoteLatest = cmd.src
    /\ remoteLatest' = remoteLatest + 1
    /\ remote' = Put(remote, remoteLatest + 1, <<>>)
    /\ hdr' = Put(hdr, remoteLatest + 1, FullHeader(D_fMRI))
    /\ naming' = [naming EXCEPT !.series = Put(@, remoteLatest + 1, "s")]
    /\ UNCHANGED << pc, changed, gone, tempdir, incoming, rc, exitStatus, out,
                    shown, sigVars, pollVars, copyVars, metaVars, cmd >>

\* the images of the series being transferred that the destination holds
\* and that the console has not touched since
Settled ==
    (DOMAIN incoming \cap Members(remote[cmd.src])) \ (changed \cup gone)

\* the console rewrites an image that was already transferred
EnvChangeImage ==
    /\ pc = "copy" /\ handler /\ ~sigPending
    /\ Cardinality(changed \cup gone) < MaxDrift
    /\ \E n \in Settled : changed' = changed \cup {n}
    /\ UNCHANGED << pc, remoteLatest, remote, hdr, naming, gone, tempdir,
                    incoming, rc, exitStatus, out, shown, sigVars, pollVars,
                    copyVars, metaVars, cmd >>

\* the console deletes an image that was already transferred
EnvRemoveImage ==
    /\ pc = "copy" /\ handler /\ ~sigPending
    /\ Cardinality(changed \cup gone) < MaxDrift
    /\ \E n \in Settled : gone' = gone \cup {n}
    /\ UNCHANGED << pc, remoteLatest, remote, hdr, naming, changed, tempdir,
                    incoming, rc, exitStatus, out, shown, sigVars, pollVars,
                    copyVars, metaVars, cmd >>

\* Ctrl-C / SIGINT is sent to the process
SendSigint ==
    /\ pc \notin Terminal /\ ~sigSent
    /\ sigSent' = TRUE /\ sigPending' = TRUE
    /\ UNCHANGED << pc, envVars, tempdir, incoming, rc, exitStatus, out, shown,
                    handler, pollVars, copyVars, metaVars, cmd >>

\* ------------------------------------------------------------ termination
Exit0(msg) ==
    /\ pc' = "exited" /\ exitStatus' = "success" /\ out' = out \cup {msg}
Crash(msg) ==
    /\ pc' = "crashed" /\ exitStatus' = "error" /\ out' = out \cup {msg}

\* SIGINT with Python's default handler: KeyboardInterrupt, uncaught
KeyboardInterrupt ==
    /\ sigPending /\ ~handler /\ pc \notin Terminal
    /\ pc' = "killed" /\ exitStatus' = "error" /\ sigPending' = FALSE
    /\ out' = out \cup {"KeyboardInterrupt"}
    /\ UNCHANGED << envVars, tempdir, incoming, rc, shown, handler, sigSent,
                    pollVars, copyVars, metaVars, cmd >>

\* --------------------------------------------------------- change detector
AlwaysChanged(dir, baseline) == TRUE
SeriesChangedTest(dir, baseline) == dir # baseline

\* "while not bFound" with bFound false: the next poll
GiveUp == "exited"
WhileNotFound == "poll"

\* get_last_imagepath, get_last_seriespath, the directories
Resolve ==
    /\ pc = "start" /\ ~sigPending
    /\ IF get_last_imagepath(ConsoleDirs).raised
       THEN /\ Crash("IndexError")
            /\ UNCHANGED << orig_seriesdir, flag >>
       ELSE /\ orig_seriesdir' = get_last_seriespath(ExamDir).seriesdir
            /\ flag' = get_last_seriespath(ExamDir).flag
            /\ pc' = "gate"
            /\ out' = out \cup Complaints(get_last_imagepath(ConsoleDirs).path)
            /\ UNCHANGED exitStatus
    /\ UNCHANGED << envVars, tempdir, incoming, rc, shown, sigVars,
                    seriesdir, srcdir, bFound, s, pollLog, triggered, checkLog,
                    copyVars, metaVars, cmd >>

\* input("Press return ..."), then the loop variables
Gate ==
    /\ pc = "gate" /\ ~sigPending
    /\ bFound' = FALSE
    /\ srcdir' = orig_seriesdir /\ seriesdir' = orig_seriesdir
    /\ s' = 0
    /\ pc' = "poll"
    /\ UNCHANGED << envVars, tempdir, incoming, rc, exitStatus, out, shown,
                    sigVars, orig_seriesdir, flag, pollLog, triggered,
                    checkLog, copyVars, metaVars, cmd >>

\* one turn of "while not bFound" up to the call of check_for_fmri
Poll ==
    /\ pc = "poll" /\ ~sigPending /\ ~bFound
    /\ s < MaxPolls
    /\ s' = s + 1
    /\ seriesdir' = get_last_seriespath(ExamDir).seriesdir
    /\ flag' = get_last_seriespath(ExamDir).flag
    /\ pollLog' = Append(pollLog, seriesdir')
    /\ IF SeriesChangedTest(seriesdir', orig_seriesdir)
       THEN /\ pc' = "fetch"
            /\ triggered' = Append(triggered, seriesdir')
       ELSE /\ pc' = WhileNotFound
            /\ UNCHANGED triggered
    /\ out' = out \cup NamingMessage(LatestChild(ExamDir), "s", "Series not found")
    /\ UNCHANGED << envVars, tempdir, incoming, rc, exitStatus, shown,
                    sigVars, orig_seriesdir, srcdir, bFound, checkLog,
                    copyVars, metaVars, cmd >>

\* the sample written into the directory FIRMM watches
SampleToIncoming(n, f) == incoming' = Put(incoming, n, f) /\ UNCHANGED tempdir
\* localdir of check_for_fmri is tempdir: the sample is written into ~/temp
SampleToLocaldir(n, f) == tempdir' = Put(tempdir, n, f) /\ UNCHANGED incoming

\* an empty series directory taken as "nothing to sample", going on with
\* what ~/temp holds
SampleSkipped ==
    /\ pc' = "classify"
    /\ UNCHANGED << tempdir, incoming, rc, exitStatus, out >>
\* out[0] of the empty listing of the series directory: IndexError
SampleMissing ==
    /\ Crash("IndexError")
    /\ UNCHANGED << tempdir, incoming, rc >>

\* check_for_fmri, first half: find the newest image and rsync it to ~/temp.
\* A name that does not begin with "i" keeps the newline of the ls output,
\* so the shell runs the rsync without destination (a listing) and then the
\* destination directory as a command: status 126, nothing is copied.
Fetch ==
    /\ pc = "fetch" /\ ~sigPending
    /\ IF LatestChild(ImageDir(seriesdir)) = <<>>
       THEN SampleMissing
       ELSE LET im == LatestChild(ImageDir(seriesdir))
                n == im[1].id
                new == n \notin DOMAIN tempdir
            IN  IF PrefixFlag(im, "i") # OK
                THEN /\ rc' = <<126>>
                     /\ pc' = "exited" /\ exitStatus' = "success"
                     /\ out' = out \cup {"Images not found",
                                          "rsync of this file failed"}
                     /\ UNCHANGED << tempdir, incoming >>
                ELSE
                \/ /\ rc' = <<OK>>
                   /\ IF new THEN SampleToLocaldir(n, File(seriesdir, TRUE))
                      ELSE UNCHANGED << tempdir, incoming >>
                   /\ pc' = "classify"
                   /\ UNCHANGED << exitStatus, out >>
                \/ /\ rc' \in {<<1>>, <<>>}
                   /\ \/ UNCHANGED << tempdir, incoming >>
                      \/ /\ new /\ rc' # <<>> /\ KeepPartial(SampleFlags)
                         /\ SampleToLocaldir(n, File(seriesdir, FALSE))
                   /\ Exit0("rsync of this file failed")
    /\ UNCHANGED << envVars, shown, sigVars, pollVars, copyVars, metaVars, cmd >>

\* check_for_fmri, second half, and the use main() makes of its result
Classify ==
    /\ pc = "classify" /\ ~sigPending
    /\ IF list_dcm(tempdir) = {}
       THEN /\ Exit0("No DICOM file found")
            /\ UNCHANGED << bFound, srcdir, checkLog >>
       ELSE \E n \in list_dcm(tempdir) :    \* get_dcmpath: list_dcm[0]
         LET res == get_metadata(hdr[tempdir[n].ser])
         IN  IF res.raised
             THEN /\ Crash("AttributeError")
                  /\ UNCHANGED << bFound, srcdir, checkLog >>
             ELSE /\ bFound' = IsFmri(res.metadata)
                  /\ checkLog' = Append(checkLog,
                         [ser |-> seriesdir, sample |-> tempdir[n].ser,
                          verdict |-> IsFmri(res.metadata)])
                  /\ IF IsFmri(res.metadata)
                     THEN srcdir' = seriesdir /\ pc' = "install"
                     ELSE UNCHANGED srcdir /\ pc' = WhileNotFound
                  /\ UNCHANGED << exitStatus, out >>
    /\ UNCHANGED << envVars, tempdir, incoming, rc, shown, sigVars,
                    orig_seriesdir, seriesdir, flag, s, pollLog, triggered,
                    copyVars, metaVars, cmd >>

\* signal.signal(signal.SIGINT, signal_handler), and the rsync command
Install ==
    /\ pc = "install" /\ ~sigPending
    /\ handler' = TRUE
    /\ cmd' = rsync_cmd(srcdir)
    /\ pc' = "copy"
    /\ UNCHANGED << envVars, tempdir, incoming, rc, exitStatus, out, shown,
                    sigSent, sigPending, pollVars, copyVars, metaVars >>

\* -------------------------------------------------- staged transfer engine
\* "iter: i" and the start of systemcall(cmd): rsync builds its file list
\* from the source glob and drops the names --ignore-existing excludes.
Listed(src) == Members(remote[src]) \ gone
\* the content rsync reads from the console for the image named n
RemoteFile(src, n) == [ File(src, TRUE) EXCEPT !.ver = IF n \in changed THEN 1 ELSE 0 ]

CopyBegin ==
    /\ pc = "copy" /\ ~sigPending
    /\ i < MaxIter
    /\ \/ /\ snap' = Listed(cmd.src)
          /\ todo' = IgnoreExisting(Listed(cmd.src), incoming)
          /\ pc' = "rsync"
          /\ UNCHANGED rc
       \/ /\ rc' = <<>>                       \* OSError: nothing was run
          /\ pc' = "after"
          /\ snap' = {} /\ todo' = {}
    /\ prevSnap' = snap
    /\ prevOK' = (i > 0 /\ rc = <<OK>>)
    /\ fault' = (pc' = "after")
    /\ writes' = {}
    /\ destAtStart' = incoming
    /\ inflight' = {}
    /\ UNCHANGED << envVars, tempdir, incoming, exitStatus, out, shown,
                    sigVars, pollVars, i, metaVars, cmd >>

\* rsync starts to receive one file into a temporary file
RsyncReceive ==
    /\ pc = "rsync" /\ ~sigPending
    /\ inflight = {}
    /\ \E n \in todo : inflight' = {n}
    /\ UNCHANGED << pc, envVars, tempdir, incoming, rc, exitStatus, out, shown,
                    sigVars, pollVars, i, todo, snap, prevSnap, prevOK, fault,
                    writes, destAtStart, metaVars, cmd >>

\* the file is complete: the temporary file is renamed to its final name
RsyncRename ==
    /\ pc = "rsync" /\ ~sigPending
    /\ \E n \in inflight :
         /\ incoming' = Put(incoming, n, RemoteFile(cmd.src, n))
         /\ todo' = todo \ {n}
         /\ writes' = writes \cup {n}
    /\ inflight' = {}
    /\ UNCHANGED << pc, envVars, tempdir, rc, exitStatus, out, shown, sigVars,
                    pollVars, i, snap, prevSnap, prevOK, fault, destAtStart,
                    metaVars, cmd >>

\* what an interrupted rsync leaves of the file it was receiving
Interrupted(dir, flags) ==
    IF inflight # {} /\ KeepPartial(flags)
    THEN LET n == CHOOSE m \in inflight : TRUE
         IN  Put(dir, n, File(cmd.src, FALSE))
    ELSE dir

\* rsync ends with every file transferred
RsyncDone ==
    /\ pc = "rsync" /\ ~sigPending
    /\ todo = {} /\ inflight = {}
    /\ rc' = <<OK>>
    /\ pc' = "after"
    /\ UNCHANGED << envVars, tempdir, incoming, exitStatus, out, shown,
                    sigVars, pollVars, copyVars, metaVars, cmd >>

\* rsync is interrupted (connection lost, killed) and ends with an error code
RsyncFail ==
    /\ pc = "rsync" /\ ~sigPending
    /\ rc' = <<1>>
    /\ fault' = TRUE
    /\ incoming' = Interrupted(incoming, cmd.flags)
    /\ writes' = writes \cup (DOMAIN incoming' \ DOMAIN incoming)
    /\ inflight' = {}
    /\ pc' = "after"
    /\ UNCHANGED << envVars, tempdir, exitStatus, out, shown, sigVars,
                    pollVars, i, todo, snap, prevSnap, prevOK, destAtStart,
                    metaVars, cmd >>

\* "while True": the next iteration runs the same command again
BackToPolling == "poll"
WhileTrue == "copy"

\* where main() goes with the result of systemcall(cmd)
RetryOnFailure(result) == "copy"
OnCopyResult(result) == IF result = <<OK>> THEN WhileTrue ELSE "exited"

AfterCopy ==
    /\ pc = "after" /\ ~sigPending
    /\ pc' = OnCopyResult(rc)
    /\ IF rc = <<OK>>
       THEN /\ out' = out \cup {"rsync of this dir succeeded"}
            /\ i' = i + 1                    \* then sleep(time_inc)
            /\ UNCHANGED exitStatus
       ELSE /\ out' = out \cup {"rsync of this dir failed"}
            /\ exitStatus' = IF pc' = "exited" THEN "success" ELSE exitStatus
            /\ UNCHANGED i
    /\ UNCHANGED << envVars, tempdir, incoming, rc, shown, sigVars, pollVars,
                    todo, inflight, snap, prevSnap, prevOK, fault, writes,
                    destAtStart, metaVars, cmd >>

\* ---------------------------------------------------- cancellation handler
\* signal_handler, run when SIGINT arrives with the handler registered.  A
\* running rsync either was interrupted by the same Ctrl-C or is killed when
\* SystemExit unwinds subprocess.call.
HandleSignal ==
    /\ sigPending /\ handler /\ pc \notin Terminal
    /\ sigPending' = FALSE
    /\ \E dir \in {incoming} \cup
                  (IF pc = "rsync" THEN {Interrupted(incoming, cmd.flags)} ELSE {}) :
         /\ incoming' = dir
         /\ inflight' = IF dir = incoming THEN inflight ELSE {}
         /\ writes' = writes \cup (DOMAIN dir \ DOMAIN incoming)
         /\ IF list_dcm(dir) = {}
            THEN /\ Exit0("No DICOM file found")
                 /\ UNCHANGED shown
            ELSE \E n \in list_dcm(dir) :         \* get_dcmpath: list_dcm[0]
                   LET res == get_metadata(hdr[dir[n].ser])
                   IN  IF res.raised
                       THEN /\ Crash("AttributeError")
                            /\ UNCHANGED shown
                       ELSE /\ shown' = print_studydata(res.metadata)
                            /\ Exit0("Quitting!")
    /\ UNCHANGED << envVars, tempdir, rc, handler, sigSent, pollVars, i, todo,
                    snap, prevSnap, prevOK, fault, destAtStart, metaVars, cmd >>

\* ------------------------------------------------------------- the program
Next ==
    \/ EnvNewSeries \/ EnvAddImage \/ EnvLaterSeries
    \/ EnvChangeImage \/ EnvRemoveImage \/ SendSigint
    \/ KeyboardInterrupt \/ HandleSignal
    \/ Resolve \/ Gate \/ Poll \/ Fetch \/ Classify \/ Install
    \/ CopyBegin \/ RsyncReceive \/ RsyncRename \/ RsyncDone \/ RsyncFail
    \/ AfterCopy

Spec == Init /\ [][Next]_vars

\* ------------------------------------------ names outside the convention
\* The same process on a console where one entry, or none, is not named by
\* the e / s / i convention.
Deviations(nm) ==
    Cardinality({ k \in Series : nm.series[k] # "s" })
      + Cardinality({ n \in Names : nm.image[n] # "i" })
      + (IF nm.exam # "e" THEN 1 ELSE 0)
NamingInit == InitProc /\ naming \in { nm \in Namings : Deviations(nm) <= 1 }
SpecNaming == NamingInit /\ [][Next]_vars

\* ------------------------------------------------- get_metadata on its own
\* get_metadata applied to one image file, for every combination of the
\* recognised tags the file may carry.
\* the variables of the process, when a function is tried on its own
ProcIdle ==
    /\ remoteLatest = 1
    /\ remote = [ ser \in Series |-> <<>> ]
    /\ hdr = [ o \in {Stale} \cup Series |-> FullHeader(D_T1) ]
    /\ tempdir = NoFiles /\ incoming = NoFiles
    /\ orig_seriesdir = 0 /\ seriesdir = 0 /\ srcdir = 0 /\ bFound = FALSE
    /\ s = 0 /\ i = 0
    /\ rc = <<>> /\ todo = {} /\ inflight = {}
    /\ handler = FALSE /\ sigSent = FALSE /\ sigPending = FALSE
    /\ exitStatus = "running" /\ out = {} /\ shown = NoMetadata
    /\ pollLog = <<>> /\ triggered = <<>> /\ checkLog = <<>>
    /\ snap = {} /\ prevSnap = {} /\ prevOK = FALSE /\ fault = FALSE
    /\ writes = {} /\ destAtStart = NoFiles
    /\ naming = GoodNaming /\ flag = OK
    /\ cmd = NoCmd /\ changed = {} /\ gone = {}

procVars == << envVars, cmd, tempdir, incoming, rc, exitStatus, out, shown,
               sigVars, pollVars, copyVars >>

MetaInit ==
    /\ pc = "meta"
    /\ m_hdr \in AllHeaders /\ m_res = NoResult
    /\ c_desc = <<>> /\ c_res = FALSE
    /\ r_dirs = NoDirs /\ r_res = NoPath
    /\ ProcIdle

MetaRead ==
    /\ pc = "meta"
    /\ m_res' = get_metadata(m_hdr)
    /\ pc' = "meta_done"
    /\ UNCHANGED << procVars, m_hdr, c_desc, c_res, r_dirs, r_res >>

SpecMeta == MetaInit /\ [][MetaRead]_vars

\* ------------------------------------------------- the fMRI test on its own
\* The test of check_for_fmri applied to the metadata of an image that
\* carries all tags, for every SeriesDescription of DescStrings.
ClassifyInit ==
    /\ pc = "test"
    /\ c_desc \in DescStrings /\ c_res = FALSE
    /\ m_hdr = FullHeader(D_T1) /\ m_res = NoResult
    /\ r_dirs = NoDirs /\ r_res = NoPath
    /\ ProcIdle

ClassifyTest ==
    /\ pc = "test"
    /\ c_res' = IsFmri(get_metadata(FullHeader(c_desc)).metadata)
    /\ pc' = "test_done"
    /\ UNCHANGED << procVars, m_hdr, m_res, c_desc, r_dirs, r_res >>

SpecClassify == ClassifyInit /\ [][ClassifyTest]_vars

\* ------------------------------------------- get_last_imagepath on its own
\* get_last_imagepath applied to every hierarchy whose directories at one
\* level are alike and whose names follow the p/e/s/i convention.
ResolveInit ==
    /\ pc = "locate"
    /\ \E d1 \in ConformingDirs(1), d2 \in ConformingDirs(2),
          d3 \in ConformingDirs(3), d4 \in ConformingDirs(4) :
         r_dirs = << d1, d2, d3, d4 >>
    /\ r_res = NoPath
    /\ m_hdr = FullHeader(D_T1) /\ m_res = NoResult
    /\ c_desc = <<>> /\ c_res = FALSE
    /\ ProcIdle

ResolveLatest ==
    /\ pc = "locate"
    /\ r_res' = get_last_imagepath(r_dirs)
    /\ pc' = "locate_done"
    /\ UNCHANGED << procVars, m_hdr, m_res, c_desc, c_res, r_dirs >>

SpecResolve == ResolveInit /\ [][ResolveLatest]_vars

\* ==================================================================== claims
Last(seq) == seq[Len(seq)]

\* C1: once a series that differs from the baseline is classified as not
\* fMRI, the baseline becomes that series (the machine is back in Polling),
\* and check_for_fmri is never called on that series again.
C1_RejectedBecomesBaseline ==
    /\ (pc = "poll" /\ checkLog # <<>> /\ ~Last(checkLog).verdict)
          => orig_seriesdir = Last(checkLog).ser
    /\ \A k \in 1..Len(checkLog) :
          ~checkLog[k].verdict =>
             \A j \in (k+1)..Len(triggered) : triggered[j] # checkLog[k].ser

\* C2: for polls that resolve to n repeats of the baseline A and then to a
\* different series B, check_for_fmri is called exactly once, on B, and
\* never for a poll that resolves to the baseline.
C2_ChangeSignalledOnce ==
    LET n == Len(pollLog)
    IN  /\ (\A k \in 1..n : pollLog[k] = orig_seriesdir) => triggered = <<>>
        /\ (/\ n >= 1
            /\ \A k \in 1..(n-1) : pollLog[k] = orig_seriesdir
            /\ pollLog[n] # orig_seriesdir) => triggered = << pollLog[n] >>
        /\ \A j \in 1..Len(triggered) : triggered[j] # orig_seriesdir

C2_Witness ==
    /\ Len(pollLog) = 4
    /\ \A k \in 1..3 : pollLog[k] = orig_seriesdir
    /\ pollLog[4] # orig_seriesdir
    /\ triggered = << pollLog[4] >>
    /\ pc = "fetch"

\* C3: the transfer loop runs only after a polled series that differs from
\* the baseline was classified true, and it mirrors exactly that series:
\* never the baseline, never a series that was classified false.
C3_SourceIsConfirmedSeries ==
    pc \in TransferLoop =>
        /\ checkLog # <<>>
        /\ Last(checkLog).verdict
        /\ srcdir = Last(checkLog).ser
        /\ srcdir = Last(pollLog)
        /\ srcdir # orig_seriesdir
        /\ \A k \in 1..Len(checkLog) :
              checkLog[k].ser = srcdir => checkLog[k].verdict

\* C4: no partially written file is ever in incomingdir: every file there
\* is complete and a file being received is a temporary file in ~/temp.
C4_NoPartialInDestination ==
    /\ \A n \in DOMAIN incoming : incoming[n].complete
    /\ inflight # {} => TempLocation = "temp"

\* C5: an rsync run that follows a successful run on the same source names
\* and meets no fault returns OK, writes nothing to incomingdir and leaves
\* it as the first run left it.
C5_SecondRunWritesNothing ==
    (pc = "after" /\ prevOK /\ snap = prevSnap /\ ~fault) =>
        /\ rc = <<OK>>
        /\ writes = {}
        /\ incoming = destAtStart

C5_Witness ==
    /\ pc = "after" /\ prevOK /\ snap = prevSnap /\ ~fault
    /\ Cardinality(snap) = 2
    /\ DOMAIN incoming = snap

\* C6: when systemcall(cmd) does not return OK the only step main() takes
\* is to print the failure and exit; no further iteration is started.
C6_FailureIsFatal ==
    [][ (pc = "after" /\ rc # <<OK>>) =>
           /\ i' = i
           /\ \/ pc' = "after"
              \/ pc' = "exited" /\ "rsync of this dir failed" \in out'
              \/ sigPending /\ pc' \in Terminal ]_vars

C6_Witness ==
    /\ pc = "exited" /\ rc # <<OK>>
    /\ "rsync of this dir failed" \in out
    /\ i = 1

\* C7: SIGINT delivered during the transfer loop is handled before another
\* rsync iteration completes: the study data is printed when incomingdir is
\* not empty, and the process exits with success.
C7_StopPrintsSummaryAndExits ==
    [][ (sigPending /\ handler /\ pc \in TransferLoop) =>
           /\ i' = i
           /\ pc' = "exited" /\ exitStatus' = "success"
           /\ DOMAIN incoming' # {} => shown' # NoMetadata ]_vars

\* C8: signal_handler always ends in a successful exit: with no image in
\* incomingdir it says so and reads no metadata, with an image (whatever
\* tags it carries) it prints the study data.
Handled == sigSent /\ ~sigPending /\ handler
C8_HandlerAlwaysSucceeds ==
    Handled =>
        /\ pc = "exited" /\ exitStatus = "success"
        /\ DOMAIN incoming = {} =>
              ("No DICOM file found" \in out /\ shown = NoMetadata)
        /\ DOMAIN incoming # {} => shown # NoMetadata

\* C9: signal_handler is registered in no state before the transfer loop
\* and in every state of the transfer loop; SIGINT before the transfer loop
\* ends the process without printing the study data.
C9_HandlerOnlyInTransferLoop ==
    /\ pc \in PreConfirmed => ~handler
    /\ pc \in TransferLoop => handler
    /\ pc = "killed" => (shown = NoMetadata /\ exitStatus = "error")
    /\ shown # NoMetadata => handler

C9_Witness ==
    /\ pc = "killed" /\ ~handler
    /\ Len(triggered) > 0
    /\ shown = NoMetadata

\* C10: get_metadata never fails for a missing tag: for each of the 128
\* combinations of present tags the result has exactly the 7 keys, each the
\* source value when the tag is present and "null" when it is absent.
C10_MetadataTotal ==
    pc = "meta_done" =>
        /\ ~m_res.raised
        /\ DOMAIN m_res.metadata = Tags
        /\ \A t \in Tags :
              m_res.metadata[t] = IF t \in m_hdr.present
                                  THEN Str(SourceValue(m_hdr, t))
                                  ELSE Null

\* C12: for a hierarchy that follows the naming convention, get_last_imagepath
\* returns at each of the four levels the entry modified last; when the
\* listing of a level is empty it returns no path (it fails with IndexError).
C12_LocateLatest ==
    pc = "locate_done" =>
        IF \E k \in 1..4 : r_dirs[k] = {}
        THEN r_res.raised /\ r_res.path = <<>>
        ELSE /\ ~r_res.raised
             /\ Len(r_res.path) = 4
             /\ \A k \in 1..4 :
                   /\ r_res.path[k] \in r_dirs[k]
                   /\ \A y \in r_dirs[k] : y.mt <= r_res.path[k].mt
             /\ r_res.examdir = SubSeq(r_res.path, 1, 2)

C12_Witness ==
    /\ pc = "locate_done" /\ ~r_res.raised
    /\ \A k \in 1..4 : Cardinality(r_dirs[k]) = 2 /\ r_res.path[k].id = 1

\* C14: the fMRI test is true exactly when SeriesDescription begins with the
\* characters f,M,R,I or E,P,I in that case; an empty description, one that
\* has them later, or one in another case is classified false.
C14_ClassifyPrefix ==
    pc = "test_done" =>
        c_res = ( \/ /\ Len(c_desc) >= 4
                     /\ c_desc[1] = "f" /\ c_desc[2] = "M"
                     /\ c_desc[3] = "R" /\ c_desc[4] = "I"
                  \/ /\ Len(c_desc) >= 3
                     /\ c_desc[1] = "E" /\ c_desc[2] = "P"
                     /\ c_desc[3] = "I" )

C14_Witness ==
    /\ pc = "test_done" /\ ~c_res
    /\ c_desc = <<"_", "f", "M", "R", "I">>

\* --------------------------------------------- check_for_fmri on its own
\* check_for_fmri called for a series that differs from the baseline, for
\* every content of that series' directory, every naming of its images,
\* every header and every content of ~/temp left by earlier samples.
FetchInit ==
    /\ pc = "fetch"
    /\ remoteLatest = MaxSeries /\ seriesdir = MaxSeries /\ orig_seriesdir = 1
    /\ srcdir = 1 /\ bFound = FALSE /\ flag = OK /\ s = 1
    /\ pollLog = << MaxSeries >> /\ triggered = << MaxSeries >>
    /\ checkLog = <<>>
    /\ \E k \in 0..MaxImg :
         remote = [ ser \in Series |->
                      IF ser = MaxSeries THEN [ j \in 1..k |-> j ] ELSE << 1 >> ]
    /\ \E g \in [Names -> {"i", "x"}] : naming = [GoodNaming EXCEPT !.image = g]
    /\ \E h0, h1 \in SeriesHeaders :
         hdr = [ o \in {Stale} \cup Series |-> IF o = MaxSeries THEN h1 ELSE h0 ]
    /\ \E old \in SUBSET Names : tempdir = [ n \in old |-> File(Stale, TRUE) ]
    /\ incoming = NoFiles /\ cmd = NoCmd /\ changed = {} /\ gone = {}
    /\ i = 0 /\ rc = <<>> /\ todo = {} /\ inflight = {}
    /\ handler = HandlerAtStartup /\ sigSent = FALSE /\ sigPending = FALSE
    /\ exitStatus = "running" /\ out = {} /\ shown = NoMetadata
    /\ snap = {} /\ prevSnap = {} /\ prevOK = FALSE /\ fault = FALSE
    /\ writes = {} /\ destAtStart = NoFiles
    /\ PureIdle
SpecFetch == FetchInit /\ [][Fetch \/ Classify]_vars

\* C11: once the resolver has met an exam, series or image entry whose name
\* does not begin with e, s, i (it has printed "... not found"), the process
\* is terminated: it is not waiting, polling, sampling or transferring.
NamingComplaint ==
    out \cap {"Exam not found", "Series not found", "Images not found"} # {}
C11_BadNameIsFatal == NamingComplaint => pc \in Terminal

\* C13: when the listing of the new series directory is empty, or ~/temp
\* holds no file named i* once the copy is over, check_for_fmri has ended
\* the process and no classification result exists.
C13_NoSampleNoClassification ==
    /\ (pc # "fetch" /\ remote[seriesdir] = <<>>)
          => (pc \in Terminal /\ checkLog = <<>> /\ ~bFound)
    /\ (pc \notin {"fetch", "classify"} /\ list_dcm(tempdir) = {})
          => (pc \in Terminal /\ checkLog = <<>> /\ ~bFound)
C13_Witness ==
    /\ pc = "crashed" /\ remote[seriesdir] = <<>>
    /\ list_dcm(tempdir) # {} /\ checkLog = <<>>

\* C15: every classification is computed from a sample image of the series
\* that was just detected as changed, whatever ~/temp held before.
C15_SampleOfNewSeries ==
    \A k \in DOMAIN checkLog : checkLog[k].sample = checkLog[k].ser

\* C18: as long as no series has been confirmed (start-up, waiting, polling,
\* sampling, classifying, also for series that end up rejected) the
\* destination directory is empty; the samples are in ~/temp.
C18_DestinationEmptyBeforeConfirmed ==
    (pc \in PreConfirmed \/ ~bFound) => incoming = NoFiles
C18_Witness ==
    /\ pc = "poll" /\ ~bFound /\ incoming = NoFiles
    /\ \E k \in DOMAIN checkLog : ~checkLog[k].verdict
    /\ \E n \in DOMAIN tempdir : tempdir[n].ser # Stale

SampleFatal == {"IndexError", "rsync of this file failed",
                "No DICOM file found", "AttributeError"}
FrozenStep ==
    /\ cmd' = cmd /\ cmd = rsync_cmd(srcdir)
    /\ pc' \in TransferLoop \cup Terminal
    /\ UNCHANGED << srcdir, seriesdir, bFound, s, pollLog, triggered,
                    checkLog, tempdir >>
\* C17: in the transfer loop the command (source, staging and destination
\* directories, skip-existing) stays the one built for the confirmed series,
\* the process stays in the loop until it ends, and nothing is listed,
\* sampled or classified any more.
C17_JobFrozen == [][(pc \in TransferLoop) => FrozenStep]_vars
C17_Witness ==
    /\ pc \in TransferLoop /\ i >= 1
    /\ remoteLatest > cmd.src /\ remote[remoteLatest] # <<>>
    /\ cmd = rsync_cmd(srcdir) /\ Last(pollLog) = cmd.src

\* a step that keeps every file of the destination directory as it is
KeptFiles ==
    \A n \in DOMAIN incoming :
        n \in DOMAIN incoming' /\ incoming'[n] = incoming[n]
\* C19: a file visible in the destination directory stays there with the
\* content it had when it became visible, also when the console has
\* rewritten or deleted the image since.
C19_DestinationOnlyGrows == [][KeptFiles]_vars
C19_Witness ==
    /\ pc = "copy" /\ i = MaxIter /\ rc = <<OK>>
    /\ changed \cup gone # {}
    /\ \A n \in changed \cup gone : n \in DOMAIN incoming /\ incoming[n].ver = 0

====
